---------------------------- MODULE Spec2Model ----------------------------
(***************************************************************************)
(* A model of cmsplugin_blog/models.py: the Entry and EntryTitle tables,   *)
(* the published manager, the URL helpers, the comment-closing window, the *)
(* module-level registration of the moderator and of the two               *)
(* comment_was_posted receivers, and the receivers themselves.             *)
(*                                                                         *)
(* Strings that the code slices or concatenates (URLs, language codes,     *)
(* slugs) are sequences of one-character strings.  Time is counted in      *)
(* ticks; a calendar day is TicksPerDay ticks, so that a datetime (a tick) *)
(* and a date (a day number) are different things, as in the code.         *)
(***************************************************************************)
EXTENDS Integers, Sequences, FiniteSets, TLC

VARIABLES
    now,              \* the wall clock, datetime.datetime.now(), in ticks
    entries,          \* the Entry table: pk -> [is_published, pub_date]
    titles,           \* the EntryTitle table: pk -> [entry, language, slug, comments_enabled]
    lastOp,           \* outcome of the last ORM write: "ok" or "IntegrityError"
    settings,         \* django.conf.settings: name -> [present, value]
    akismetAvailable, \* whether "from akismet import Akismet" succeeds
    cmsTitles,        \* the host CMS's Title table (rows with application_urls = 'BlogApphook')
    loaded,           \* whether models.py has been imported
    registered,       \* whether EntryModerator is registered for EntryTitle
    receivers,        \* the receivers connected to comment_was_posted, in order
    comments,         \* the comment table: pk -> [parent, email, object_author, is_public, flags]
    dispatch,         \* the running comment_was_posted.send: [comment, todo, error]
    outbox,           \* the mails handed to send_mail, in order
    log               \* per comment: what each receiver did and what it asked the spam service

vars == <<now, entries, titles, lastOp, settings, akismetAvailable, cmsTitles,
          loaded, registered, receivers, comments, dispatch, outbox, log>>

(***************************************************************************)
(* Bounds of the model.                                                    *)
(***************************************************************************)
MaxNow == 5
TicksPerDay == 2
MaxEntries == 2
MaxTitles == 3
MaxComments == 2

EntryIds == 1..MaxEntries
TitleIds == 1..MaxTitles
CommentIds == 1..MaxComments
Times == 0..MaxNow

(***************************************************************************)
(* settings and getattr(settings, name, default)                           *)
(***************************************************************************)
Absent == [present |-> FALSE, value |-> FALSE]
Given(v) == [present |-> TRUE, value |-> v]

Getattr(name, default) ==
    IF settings[name].present THEN settings[name].value ELSE default

Hasattr(name) == settings[name].present

DefaultSettings ==
    [CMSPLUGIN_BLOG_MODERATE |-> Absent,
     CMSPLUGIN_BLOG_COMMENT_NOTIFICATIONS |-> Absent,
     CMSPLUGIN_BLOG_SPAM_FILTER |-> Absent,
     CMSPLUGIN_BLOG_MOD_CLOSE_AFTER |-> Absent,
     TYPEPAD_ANTISPAM_API_KEY |-> Absent,
     AKISMET_API_KEY |-> Absent,
     MULTILINGUAL_MIDDLEWARE |-> Given(FALSE)]

(***************************************************************************)
(* The clock.                                                              *)
(***************************************************************************)
Today == now \div TicksPerDay

Tick ==
    /\ now < MaxNow
    /\ now' = now + 1
    /\ UNCHANGED <<entries, titles, lastOp, settings, akismetAvailable, cmsTitles,
                   loaded, registered, receivers, comments, dispatch, outbox, log>>

(***************************************************************************)
(* Entry, its two managers and the queryset.                               *)
(***************************************************************************)
AllEntries == DOMAIN entries

\* QuerySet.filter(is_published=True, pub_date__lte=t) over a set of rows
PublishedFilterLt(qs, t) ==
    {e \in qs : entries[e].is_published = TRUE /\ entries[e].pub_date < t}

PublishedFilterGte(qs, t) ==
    {e \in qs : entries[e].is_published = TRUE /\ entries[e].pub_date >= t}

PublishedFilter(qs, t) ==
    {e \in qs : entries[e].is_published = TRUE /\ entries[e].pub_date <= t}

\* EntriesManager.get_query_set: the unfiltered queryset
EntriesManager_get_query_set == AllEntries

\* PublishedEntriesQueryset.published
PublishedEntriesQueryset_published(qs) == PublishedFilter(qs, now)

\* PublishedEntriesManager.get_query_set
PublishedEntriesManager_get_query_set ==
    PublishedEntriesQueryset_published(EntriesManager_get_query_set)

Entry_objects == EntriesManager_get_query_set
Entry_published == PublishedEntriesManager_get_query_set

TitlesOf(e) == {t \in DOMAIN titles : titles[t].entry = e}

Restrict(f, S) == [x \in S |-> f[x]]

\* Entry(...).save() of a new row; pub_date defaults to now but may be given
CreateEntry ==
    \E e \in EntryIds \ AllEntries, p \in BOOLEAN, d \in Times :
        /\ \A x \in EntryIds \ AllEntries : e <= x
        /\ entries' = [x \in AllEntries \cup {e} |->
                          IF x = e THEN [is_published |-> p, pub_date |-> d]
                          ELSE entries[x]]
        /\ lastOp' = "ok"
        /\ UNCHANGED <<now, titles, settings, akismetAvailable, cmsTitles, loaded,
                       registered, receivers, comments, dispatch, outbox, log>>

\* entry.save() of an existing row with new field values
UpdateEntry ==
    \E e \in AllEntries, p \in BOOLEAN, d \in Times :
        /\ entries[e] # [is_published |-> p, pub_date |-> d]
        /\ entries' = [entries EXCEPT ![e] = [is_published |-> p, pub_date |-> d]]
        /\ lastOp' = "ok"
        /\ UNCHANGED <<now, titles, settings, akismetAvailable, cmsTitles, loaded,
                       registered, receivers, comments, dispatch, outbox, log>>

\* entry.delete(): the ForeignKey of EntryTitle cascades
DeleteEntry ==
    \E e \in AllEntries :
        /\ entries' = Restrict(entries, AllEntries \ {e})
        /\ titles' = Restrict(titles, DOMAIN titles \ TitlesOf(e))
        /\ lastOp' = "ok"
        /\ UNCHANGED <<now, settings, akismetAvailable, cmsTitles, loaded,
                       registered, receivers, comments, dispatch, outbox, log>>

NoTable == [x \in {} |-> x]

InitRest ==
    /\ lastOp = "ok"
    /\ akismetAvailable = FALSE
    /\ loaded = FALSE
    /\ registered = FALSE
    /\ receivers = <<>>
    /\ comments = NoTable
    /\ dispatch = [comment |-> 0, todo |-> <<>>, error |-> "none"]
    /\ outbox = <<>>
    /\ log = NoTable

InitEntries ==
    /\ now = 0
    /\ entries = NoTable
    /\ titles = NoTable
    /\ settings = DefaultSettings
    /\ cmsTitles = {}
    /\ InitRest

NextEntries == CreateEntry \/ UpdateEntry \/ DeleteEntry \/ Tick

SpecEntries == InitEntries /\ [][NextEntries]_vars

\* the clock does not stop
LiveSpecEntries == SpecEntries /\ WF_vars(Tick)

(***************************************************************************)
(* EntryTitle: the table, its unique_together constraint and its writes.   *)
(***************************************************************************)
Languages == {<<"e", "n">>, <<"d", "e">>}
Slugs == {<<"a">>, <<"b">>}

AllTitles == DOMAIN titles

TitleRow(e, l, s, ce) ==
    [entry |-> e, language |-> l, slug |-> s, comments_enabled |-> ce]

\* the rows other than pk that the database's unique index sets against row
UniqueTogetherWithEntry(pk, row) ==
    {t \in AllTitles \ {pk} :
        /\ titles[t].entry = row.entry
        /\ titles[t].language = row.language
        /\ titles[t].slug = row.slug}

UniqueTogether(pk, row) ==
    {t \in AllTitles \ {pk} :
        titles[t].language = row.language /\ titles[t].slug = row.slug}

\* EntryTitle(...).save() of a new row, comments_enabled drawn from CE
CreateTitleWith(CE) ==
    \E pk \in TitleIds \ AllTitles, e \in AllEntries, l \in Languages, s \in Slugs,
       ce \in CE :
        /\ \A x \in TitleIds \ AllTitles : pk <= x
        /\ LET row == TitleRow(e, l, s, ce) IN
           IF UniqueTogether(pk, row) # {}
           THEN /\ lastOp' = "IntegrityError"
                /\ titles' = titles
           ELSE /\ lastOp' = "ok"
                /\ titles' = [x \in AllTitles \cup {pk} |->
                                 IF x = pk THEN row ELSE titles[x]]
        /\ UNCHANGED <<now, entries, settings, akismetAvailable, cmsTitles, loaded,
                       registered, receivers, comments, dispatch, outbox, log>>

\* title.save() of an existing row with new field values
UpdateTitleWith(CE) ==
    \E pk \in AllTitles, e \in AllEntries, l \in Languages, s \in Slugs,
       ce \in CE :
        /\ titles[pk] # TitleRow(e, l, s, ce)
        /\ LET row == TitleRow(e, l, s, ce) IN
           IF UniqueTogether(pk, row) # {}
           THEN /\ lastOp' = "IntegrityError"
                /\ titles' = titles
           ELSE /\ lastOp' = "ok"
                /\ titles' = [titles EXCEPT ![pk] = row]
        /\ UNCHANGED <<now, entries, settings, akismetAvailable, cmsTitles, loaded,
                       registered, receivers, comments, dispatch, outbox, log>>

\* writes that may freeze commenting, and writes that keep the field's default
CreateTitle == CreateTitleWith(BOOLEAN)
UpdateTitle == UpdateTitleWith(BOOLEAN)
CreateOpenTitle == CreateTitleWith({TRUE})
UpdateOpenTitle == UpdateTitleWith({TRUE})

\* title.delete()
DeleteTitle ==
    \E pk \in AllTitles :
        /\ titles' = Restrict(titles, AllTitles \ {pk})
        /\ lastOp' = "ok"
        /\ UNCHANGED <<now, entries, settings, akismetAvailable, cmsTitles, loaded,
                       registered, receivers, comments, dispatch, outbox, log>>

(***************************************************************************)
(* URLs.  A call either returns a value or raises.                         *)
(***************************************************************************)
Return(v) == [raised |-> "", value |-> v]
Raise(x) == [raised |-> x, value |-> <<>>]

Min(a, b) == IF a < b THEN a ELSE b

\* Python's s[i:j] for 0 <= i, j (0-based, j exclusive, clamped to the string)
Slice(s, i, j) == SubSeq(s, Min(i, Len(s)) + 1, Min(j, Len(s)))

\* Python's s[i:]
SliceFrom(s, i) == SubSeq(s, Min(i, Len(s)) + 1, Len(s))

\* datetime -> date
DateOf(dt) == dt \div TicksPerDay

TwoDigits(n) == <<ToString((n \div 10) % 10), ToString(n % 10)>>

\* strftime('%Y'), ('%m'), ('%d'); day 0 of the model is 2010-01-01
Strftime(dt, fmt) ==
    CASE fmt = "%Y" -> <<"2", "0", "1", "0">>
      [] fmt = "%m" -> <<"0", "1">>
      [] fmt = "%d" -> TwoDigits(DateOf(dt) + 1)

\* where the host's URLconf mounts the blog, and reverse('pages-root')
BlogMount == <<"/", "b", "l", "o", "g">>
PagesRoot == <<"/">>

\* reverse('<ns>blog_detail', kwargs=...): the host prefixes a language namespace
ReverseBlogDetail(ns, kw) ==
    (IF ns = <<>> THEN <<>> ELSE <<"/">> \o ns)
        \o BlogMount \o <<"/">> \o kw.year \o <<"/">> \o kw.month
        \o <<"/">> \o kw.day \o <<"/">> \o kw.slug \o <<"/">>

\* AbstractEntryTitle.get_absolute_url = models.permalink(_get_absolute_url)
EntryTitle_get_absolute_url(t) ==
    LET language_namespace ==
            IF Getattr("MULTILINGUAL_MIDDLEWARE", FALSE)
            THEN titles[t].language ELSE <<>>
        pub_date == entries[titles[t].entry].pub_date
    IN  ReverseBlogDetail(language_namespace,
                          [year |-> Strftime(pub_date, "%Y"),
                           month |-> Strftime(pub_date, "%m"),
                           day |-> Strftime(pub_date, "%d"),
                           slug |-> titles[t].slug])

\* django.utils.translation.get_language(): the active language
get_language == <<"e", "n">>

\* self.entrytitle_set.get(language=language)
EntryTitleSetGet(e, language) ==
    LET found == {t \in TitlesOf(e) : titles[t].language = language} IN
    IF found = {} THEN Raise("DoesNotExist")
    ELSE IF Cardinality(found) > 1 THEN Raise("MultipleObjectsReturned")
    ELSE Return(CHOOSE t \in found : TRUE)

\* Entry.get_absolute_url(language)
Entry_get_absolute_url(e, lang) ==
    LET language == IF lang = <<>> THEN get_language ELSE lang
        got == EntryTitleSetGet(e, language)
    IN  IF got.raised = "DoesNotExist" THEN Return(<<>>)
        ELSE IF got.raised # "" THEN Raise(got.raised)
        ELSE LET url == EntryTitle_get_absolute_url(got.value) IN
             IF Slice(url, 1, Len(language) + 1) = language
             THEN Return(SliceFrom(url, Len(language) + 1))
             ELSE Return(url)

RECURSIVE LStrip(_)
LStrip(s) == IF s # <<>> /\ Head(s) = "/" THEN LStrip(Tail(s)) ELSE s

RECURSIVE RStrip(_)
RStrip(s) ==
    IF s # <<>> /\ s[Len(s)] = "/" THEN RStrip(SubSeq(s, 1, Len(s) - 1)) ELSE s

\* unicode(segment).strip("/")
Strip(s) == RStrip(LStrip(s))

\* cms.utils.urlutils.urljoin(first, second)
urljoin(first, second) ==
    LET a == Strip(first)
        b == Strip(second)
        joined == IF a = <<>> THEN b
                  ELSE IF b = <<>> THEN a
                  ELSE a \o <<"/">> \o b
        lead == IF first # <<>> /\ Head(first) = "/"
                   /\ ~(joined # <<>> /\ Head(joined) = "/")
                THEN <<"/">> \o joined ELSE joined
    IN  IF second # <<>> /\ second[Len(second)] = "/"
           /\ ~(lead # <<>> /\ lead[Len(lead)] = "/")
        THEN lead \o <<"/">> ELSE lead

\* Title.objects.get(application_urls='BlogApphook', language=language)
TitleObjectsGet(language) ==
    LET found == {T \in cmsTitles :
                     T.application_urls = "BlogApphook" /\ T.language = language} IN
    IF found = {} THEN Raise("DoesNotExist")
    ELSE IF Cardinality(found) > 1 THEN Raise("MultipleObjectsReturned")
    ELSE Return(CHOOSE T \in found : TRUE)

\* title.overwrite_url or title.slug
OverwriteOrSlug(T) == IF T.overwrite_url # <<>> THEN T.overwrite_url ELSE T.slug

\* Entry.language_changer(language)
Entry_language_changer(e, language) ==
    LET url == Entry_get_absolute_url(e, language) IN
    IF url.raised # "" THEN url
    ELSE IF url.value # <<>> THEN url
    ELSE LET got == TitleObjectsGet(language) IN
         IF got.raised = "MultipleObjectsReturned" THEN Raise(got.raised)
         ELSE LET blog_prefix ==
                      IF got.raised = "DoesNotExist" THEN <<>>
                      ELSE urljoin(PagesRoot, OverwriteOrSlug(got.value))
              IN  Return(IF blog_prefix # <<>> THEN blog_prefix ELSE PagesRoot)

\* rows the host CMS may hold for pages the blog app-hook is attached to
HookEn == [language |-> <<"e", "n">>, slug |-> <<"n", "e", "w", "s">>,
           overwrite_url |-> <<>>, application_urls |-> "BlogApphook"]
HookDe == [language |-> <<"d", "e">>, slug |-> <<"n", "e", "u">>,
           overwrite_url |-> <<"/", "b", "l", "o", "g", "/">>,
           application_urls |-> "BlogApphook"]
HookEn2 == [language |-> <<"e", "n">>, slug |-> <<"o", "l", "d">>,
            overwrite_url |-> <<>>, application_urls |-> "BlogApphook"]

InitTitles ==
    /\ now = MaxNow
    /\ entries = [e \in EntryIds |->
                     [is_published |-> TRUE, pub_date |-> Min(e - 1, MaxNow)]]
    /\ titles = NoTable
    /\ \E m \in BOOLEAN :
          settings = [DefaultSettings EXCEPT !.MULTILINGUAL_MIDDLEWARE = Given(m)]
    /\ cmsTitles \in {{}, {HookEn}, {HookEn, HookDe}, {HookEn, HookEn2}}
    /\ InitRest

NextTitles == CreateOpenTitle \/ UpdateOpenTitle \/ DeleteTitle \/ DeleteEntry

SpecTitles == InitTitles /\ [][NextTitles]_vars

(***************************************************************************)
(* The comment-closing window.                                             *)
(***************************************************************************)
\* AbstractEntryTitle.pub_date: the entry's datetime
Title_pub_date(t) == entries[titles[t].entry].pub_date

\* AbstractEntryTitle.close_days: (date of pub_date - today).days
close_days(t) == DateOf(Title_pub_date(t)) - Today

\* self.pub_date < datetime.date.today(): Python 2 refuses to order a
\* datetime against a date ("can't compare datetime.datetime to datetime.date")
DatetimeLtDate(dt, d) == Raise("TypeError")

\* AbstractEntryTitle.comments_closed
comments_closed(t) ==
    IF ~titles[t].comments_enabled THEN Return(TRUE)
    ELSE LET past == DatetimeLtDate(Title_pub_date(t), Today) IN
         IF past.raised # "" THEN Raise(past.raised)
         ELSE IF past.value
                 \/ close_days(t) >= Getattr("CMSPLUGIN_BLOG_MOD_CLOSE_AFTER", 7)
              THEN Return(TRUE)
              ELSE Return(FALSE)

InitClosing ==
    /\ now = 0
    /\ entries = [e \in EntryIds |->
                     [is_published |-> TRUE, pub_date |-> Min(2 * (e - 1), MaxNow)]]
    /\ titles = NoTable
    /\ \E n \in {Absent, Given(1), Given(2)} :
          settings = [DefaultSettings EXCEPT !.CMSPLUGIN_BLOG_MOD_CLOSE_AFTER = n]
    /\ cmsTitles = {}
    /\ InitRest

NextClosing == CreateTitle \/ UpdateTitle \/ DeleteTitle \/ Tick

SpecClosing == InitClosing /\ [][NextClosing]_vars

(***************************************************************************)
(* Importing the module: the moderator and the receivers.                  *)
(***************************************************************************)
\* AbstractEntryTitle.comments_under_moderation
comments_under_moderation == Getattr("CMSPLUGIN_BLOG_MODERATE", TRUE)

\* the module-level statements of models.py, run once at import
LoadModule ==
    /\ ~loaded
    /\ loaded' = TRUE
    /\ registered' = Getattr("CMSPLUGIN_BLOG_MODERATE", FALSE)
    /\ receivers' =
           (IF Getattr("CMSPLUGIN_BLOG_COMMENT_NOTIFICATIONS", FALSE)
            THEN <<"notification">> ELSE <<>>)
           \o (IF Getattr("CMSPLUGIN_BLOG_SPAM_FILTER", FALSE)
               THEN <<"spamcheck">> ELSE <<>>)
    /\ UNCHANGED <<now, entries, titles, lastOp, settings, akismetAvailable, cmsTitles,
                   comments, dispatch, outbox, log>>

(***************************************************************************)
(* Posting a comment: django.contrib.comments saves it and sends           *)
(* comment_was_posted to the connected receivers, in order; a receiver     *)
(* that raises ends the send.                                              *)
(***************************************************************************)
Emails == {"ann@example.org", "bob@example.org"}
Authors == {"None", "editor"}

AllComments == DOMAIN comments

\* EntryModerator.moderate: every comment on a moderated model is held back
EntryModerator_moderate == TRUE

NewLog(row) ==
    [notification |-> "not run", spamcheck |-> "not run",
     verify_key |-> "not called", comment_check |-> "not called",
     before |-> [is_public |-> row.is_public, flags |-> row.flags]]

PostComment ==
    \E pk \in CommentIds \ AllComments, parent \in {0} \cup AllComments,
       email \in Emails, author \in Authors :
        /\ loaded
        /\ dispatch.todo = <<>>
        /\ \A x \in CommentIds \ AllComments : pk <= x
        /\ LET row == [parent |-> parent, email |-> email, object_author |-> author,
                       is_public |-> ~(registered /\ EntryModerator_moderate),
                       flags |-> {}]
           IN  /\ comments' = [x \in AllComments \cup {pk} |->
                                  IF x = pk THEN row ELSE comments[x]]
               /\ log' = [x \in AllComments \cup {pk} |->
                             IF x = pk THEN NewLog(row) ELSE log[x]]
        /\ dispatch' = [comment |-> pk, todo |-> receivers, error |-> "none"]
        /\ UNCHANGED <<now, entries, titles, lastOp, settings, akismetAvailable,
                       cmsTitles, loaded, registered, receivers, outbox>>

\* comment.parent.email; the parent of a top-level comment is None
ParentEmail(c) ==
    IF comments[c].parent = 0 THEN Raise("AttributeError")
    ELSE Return(comments[comments[c].parent].email)

\* on_comment_was_posted_notification, for the comment being sent
RunNotification ==
    /\ dispatch.todo # <<>>
    /\ Head(dispatch.todo) = "notification"
    /\ LET c == dispatch.comment
           to == ParentEmail(c)
       IN  IF to.raised # ""
           THEN /\ dispatch' = [dispatch EXCEPT !.todo = <<>>, !.error = to.raised]
                /\ log' = [log EXCEPT ![c].notification = to.raised]
                /\ outbox' = outbox
           ELSE /\ dispatch' = [dispatch EXCEPT !.todo = Tail(dispatch.todo)]
                /\ log' = [log EXCEPT ![c].notification = "returned"]
                /\ outbox' = Append(outbox, [to |-> to.value, comment |-> c])
    /\ UNCHANGED <<now, entries, titles, lastOp, settings, akismetAvailable, cmsTitles,
                   loaded, registered, receivers, comments>>

\* try: from akismet import Akismet / except: return
AkismetImportUnguarded == "ok"

AkismetImport == IF akismetAvailable THEN "ok" ELSE "ImportError"

\* the body of on_comment_was_posted_spamcheck for comment c, given what the
\* service answers to verify_key() and to comment_check()
Spamcheck(c, verify, spam) ==
    LET same == [error |-> "none", row |-> comments[c],
                 verify_key |-> "not called", comment_check |-> "not called"]
    IN  IF AkismetImport # "ok" THEN same
        ELSE IF ~Hasattr("TYPEPAD_ANTISPAM_API_KEY") /\ ~Hasattr("AKISMET_API_KEY")
             THEN [same EXCEPT !.error = "AttributeError"]
        ELSE IF ~verify THEN [same EXCEPT !.verify_key = "False"]
        ELSE IF ~spam
             THEN [same EXCEPT !.verify_key = "True", !.comment_check = "False"]
        ELSE IF comments[c].object_author = "None"
             \* comment.flags.create(user=None, ...): CommentFlag.user is required
             THEN [same EXCEPT !.verify_key = "True", !.comment_check = "True",
                               !.error = "ValueError"]
        ELSE [same EXCEPT !.verify_key = "True", !.comment_check = "True",
                          !.row.flags = @ \cup {"spam"},
                          !.row.is_public = FALSE]

\* on_comment_was_posted_spamcheck, for the comment being sent
RunSpamcheck ==
    /\ dispatch.todo # <<>>
    /\ Head(dispatch.todo) = "spamcheck"
    /\ \E verify \in BOOLEAN, spam \in BOOLEAN :
          LET c == dispatch.comment
              done == Spamcheck(c, verify, spam)
          IN  /\ comments' = [comments EXCEPT ![c] = done.row]
              /\ log' = [log EXCEPT
                            ![c].spamcheck =
                                IF done.error = "none" THEN "returned" ELSE done.error,
                            ![c].verify_key = done.verify_key,
                            ![c].comment_check = done.comment_check]
              /\ dispatch' =
                     IF done.error = "none"
                     THEN [dispatch EXCEPT !.todo = Tail(dispatch.todo)]
                     ELSE [dispatch EXCEPT !.todo = <<>>, !.error = done.error]
    /\ UNCHANGED <<now, entries, titles, lastOp, settings, akismetAvailable, cmsTitles,
                   loaded, registered, receivers, outbox>>

Switches == {Absent, Given(TRUE), Given(FALSE)}

Init ==
    /\ now = 0
    /\ entries = NoTable
    /\ titles = NoTable
    /\ \E moderate \in Switches, notify \in Switches, filter \in Switches,
          typepad \in {Absent, Given(TRUE)}, akismet \in {Absent, Given(TRUE)} :
          settings = [DefaultSettings EXCEPT
                         !.CMSPLUGIN_BLOG_MODERATE = moderate,
                         !.CMSPLUGIN_BLOG_COMMENT_NOTIFICATIONS = notify,
                         !.CMSPLUGIN_BLOG_SPAM_FILTER = filter,
                         !.TYPEPAD_ANTISPAM_API_KEY = typepad,
                         !.AKISMET_API_KEY = akismet]
    /\ akismetAvailable \in BOOLEAN
    /\ cmsTitles = {}
    /\ lastOp = "ok"
    /\ loaded = FALSE
    /\ registered = FALSE
    /\ receivers = <<>>
    /\ comments = NoTable
    /\ dispatch = [comment |-> 0, todo |-> <<>>, error |-> "none"]
    /\ outbox = <<>>
    /\ log = NoTable

Next == LoadModule \/ PostComment \/ RunNotification \/ RunSpamcheck

Spec == Init /\ [][Next]_vars

(***************************************************************************)
(* C1: at every moment Entry.published is exactly the set of entries with  *)
(* is_published true and pub_date not later than the current time: it      *)
(* holds no unpublished entry and no entry dated in the future, it holds   *)
(* every published entry whose pub_date has been reached, and              *)
(* Entry.objects is the whole table.                                       *)
(***************************************************************************)
C1_PublishedIsExact ==
    /\ \A e \in Entry_published :
          e \in DOMAIN entries /\ entries[e].is_published /\ ~(entries[e].pub_date > now)
    /\ \A e \in DOMAIN entries :
          (entries[e].is_published /\ entries[e].pub_date <= now) => e \in Entry_published
    /\ Entry_objects = DOMAIN entries

\* an entry dated exactly now is listed while another entry of the table is not
C1_Witness ==
    /\ \E e \in Entry_published : entries[e].pub_date = now
    /\ \E e \in DOMAIN entries : e \notin Entry_published
    /\ now > 0

(***************************************************************************)
(* C9: visibility is monotonic in time.  A step that only advances the     *)
(* clock removes nothing from Entry.published; a published entry dated in  *)
(* the future is absent, and it is eventually listed unless it is deleted  *)
(* or unpublished; an entry leaves the published set only by a write to    *)
(* its row that deletes it, clears is_published or dates it in the future. *)
(***************************************************************************)
C9_ClockStep ==
    (now' # now /\ entries' = entries) => Entry_published \subseteq Entry_published'

C9_Leaves ==
    \A e \in Entry_published :
        e \notin Entry_published' =>
            /\ (e \notin DOMAIN entries' \/ entries'[e] # entries[e])
            /\ \/ e \notin DOMAIN entries'
               \/ ~entries'[e].is_published
               \/ entries'[e].pub_date > now'

C9_Pending(e) ==
    e \in DOMAIN entries /\ entries[e].is_published /\ entries[e].pub_date > now

C9_VisibilityMonotonic ==
    /\ [][C9_ClockStep /\ C9_Leaves]_vars
    /\ [](\A e \in EntryIds : C9_Pending(e) => e \notin Entry_published)
    /\ \A e \in EntryIds :
          C9_Pending(e) ~> (e \in Entry_published
                            \/ e \notin DOMAIN entries
                            \/ ~entries[e].is_published)

\* the clock has reached one published entry's date while another is still pending
C9_Witness ==
    /\ now > 0
    /\ \E e \in Entry_published : entries[e].pub_date = now
    /\ \E e \in EntryIds : C9_Pending(e)

(***************************************************************************)
(* C2: after any sequence of EntryTitle creations, updates and deletions   *)
(* no two distinct rows share a (language, slug) pair, and a write that is *)
(* rejected for a duplicate pair leaves the stored rows unchanged.         *)
(***************************************************************************)
C2_NoDuplicatePair ==
    \A t1 \in DOMAIN titles, t2 \in DOMAIN titles :
        (titles[t1].language = titles[t2].language /\ titles[t1].slug = titles[t2].slug)
            => t1 = t2

C2_RejectedUnchanged == lastOp' = "IntegrityError" => titles' = titles

C2_LanguageSlugUnique ==
    [](C2_NoDuplicatePair) /\ [][C2_RejectedUnchanged]_vars

\* one slug is stored in two languages and the last write was rejected
C2_Witness ==
    /\ lastOp = "IntegrityError"
    /\ \E t1 \in DOMAIN titles, t2 \in DOMAIN titles :
          titles[t1].slug = titles[t2].slug /\ titles[t1].language # titles[t2].language

(***************************************************************************)
(* C3: each (entry, language) pair has at most one EntryTitle row, so      *)
(* Entry.get_absolute_url(language) always finds zero or one title.        *)
(***************************************************************************)
C3_OneTitlePerEntryLanguage ==
    \A e \in DOMAIN entries, l \in Languages :
        /\ Cardinality({t \in TitlesOf(e) : titles[t].language = l}) <= 1
        /\ Entry_get_absolute_url(e, l).raised = ""

(***************************************************************************)
(* C8: Entry.get_absolute_url(language) returns the empty string when the  *)
(* entry has no title in that language; Entry.language_changer(language)   *)
(* never returns an empty string: it returns the entry's own URL when a    *)
(* translation in that language exists, otherwise the root of the blog     *)
(* app-hook page of that language when one exists, otherwise the pages     *)
(* root.                                                                   *)
(***************************************************************************)
C8_UrlFallbacks ==
    \A e \in DOMAIN entries, l \in Languages :
        LET own == {t \in TitlesOf(e) : titles[t].language = l}
            hooks == {T \in cmsTitles : T.language = l}
            url == Entry_get_absolute_url(e, l)
            changed == Entry_language_changer(e, l)
        IN  /\ own = {} => url = Return(<<>>)
            /\ changed.raised = "" => changed.value # <<>>
            /\ own # {} => /\ changed.raised = ""
                           /\ changed = url
            /\ (own = {} /\ Cardinality(hooks) = 1) =>
                   \E T \in hooks :
                       changed = Return(urljoin(PagesRoot, OverwriteOrSlug(T)))
            /\ (own = {} /\ hooks = {}) => changed = Return(PagesRoot)

(***************************************************************************)
(* C4: for an EntryTitle with comments_enabled true, comments_closed()     *)
(* returns false while today is fewer than CMSPLUGIN_BLOG_MOD_CLOSE_AFTER  *)
(* (default 7) days after pub_date and true once today is that many days   *)
(* or more after it, so that an entry goes from open to closed once.       *)
(***************************************************************************)
C4_ClosedAfterWindow ==
    \A t \in DOMAIN titles :
        titles[t].comments_enabled =>
            LET closed == comments_closed(t)
                days == Today - DateOf(Title_pub_date(t))
            IN  /\ closed.raised = ""
                /\ closed.value
                      <=> (days >= Getattr("CMSPLUGIN_BLOG_MOD_CLOSE_AFTER", 7))

(***************************************************************************)
(* C5: once on_comment_was_posted_spamcheck has run for a comment, the     *)
(* comment is non-public with a 'spam' flag attached if and only if the    *)
(* key was verified and the service classified the comment as spam; in     *)
(* every other outcome its is_public value and its flags are unchanged.    *)
(***************************************************************************)
C5_SpamHiddenIffJudgedSpam ==
    \A c \in DOMAIN log :
        log[c].spamcheck # "not run" =>
            LET hidden == ~comments[c].is_public /\ "spam" \in comments[c].flags
                judged == log[c].verify_key = "True" /\ log[c].comment_check = "True"
            IN  /\ hidden <=> judged
                /\ ~judged => /\ comments[c].is_public = log[c].before.is_public
                              /\ comments[c].flags = log[c].before.flags

(***************************************************************************)
(* C6: if the Akismet package is not available the spam-check receiver     *)
(* returns without raising, calls no external service, creates no flag     *)
(* and leaves the comment's is_public value unchanged.                     *)
(***************************************************************************)
C6_SilentWithoutAkismet ==
    ~akismetAvailable =>
        \A c \in DOMAIN log :
            log[c].spamcheck # "not run" =>
                /\ log[c].spamcheck = "returned"
                /\ log[c].verify_key = "not called"
                /\ log[c].comment_check = "not called"
                /\ comments[c].flags = log[c].before.flags
                /\ comments[c].is_public = log[c].before.is_public

\* the receiver has run without the package, and with no API key configured
C6_Witness ==
    /\ ~akismetAvailable
    /\ ~Hasattr("TYPEPAD_ANTISPAM_API_KEY") /\ ~Hasattr("AKISMET_API_KEY")
    /\ \E c \in DOMAIN log : log[c].spamcheck = "returned" /\ comments[c].is_public

(***************************************************************************)
(* C7: with CMSPLUGIN_BLOG_COMMENT_NOTIFICATIONS enabled every posted      *)
(* comment, a top-level one included, has the notification receiver        *)
(* complete without error and send exactly one mail, addressed to the      *)
(* poster of the parent comment; with the setting absent or false no mail  *)
(* is sent.                                                                *)
(***************************************************************************)
C7_OneMailPerComment ==
    /\ Getattr("CMSPLUGIN_BLOG_COMMENT_NOTIFICATIONS", FALSE) =>
           \A c \in DOMAIN comments :
               LET mails == {i \in DOMAIN outbox : outbox[i].comment = c} IN
               \/ (dispatch.comment = c /\ dispatch.todo # <<>>
                      /\ Head(dispatch.todo) = "notification")
               \/ /\ log[c].notification = "returned"
                  /\ Cardinality(mails) = 1
                  /\ \A i \in mails :
                         comments[c].parent # 0 =>
                             outbox[i].to = comments[comments[c].parent].email
    /\ ~Getattr("CMSPLUGIN_BLOG_COMMENT_NOTIFICATIONS", FALSE) => outbox = <<>>

(***************************************************************************)
(* C10: for every value of CMSPLUGIN_BLOG_MODERATE, the absent setting     *)
(* included, comments_under_moderation() is true exactly when              *)
(* EntryModerator has been registered for EntryTitle.                      *)
(***************************************************************************)
C10_ModerationMatchesRegistration ==
    loaded => (comments_under_moderation <=> registered)

=============================================================================
